---- MODULE Spec2Model ----
(***************************************************************************)
(* A model of the binrw read engine: the BinRead trait and its one-shot    *)
(* entry points (binrw/src/binread/mod.rs), the built-in implementations   *)
(* for numeric primitives, char, Vec, arrays, tuples, Option, Box, unit    *)
(* and PhantomData (binrw/src/binread/impls.rs), and the named-argument    *)
(* builder derived by BinrwNamedArgs (binrw_derive/src/lib.rs).            *)
(*                                                                         *)
(* The reader is an in-memory cursor: a byte sequence and a position.      *)
(* Integers are kept as base-256 numerals, most significant digit first,   *)
(* because the values of u32..u128 exceed TLC's integers; IntOf gives the  *)
(* number a numeral denotes wherever that number is small enough.          *)
(***************************************************************************)
EXTENDS Integers, Sequences, FiniteSets, TLC

\* ------------------------------------------------------------------ bounds
MaxLen == 3        \* longest exhaustively enumerated stream
MaxCount == 2      \* largest VecArgs.count
MaxN == 3          \* largest array length N

Bytes == {0, 255}
Endians == {"Big", "Little", "Native"}

Max(a, b) == IF a >= b THEN a ELSE b
Min(a, b) == IF a <= b THEN a ELSE b

RECURSIVE Reverse(_)
Reverse(s) == IF s = <<>> THEN <<>> ELSE Append(Reverse(Tail(s)), Head(s))

RECURSIVE SeqsUpTo(_, _)
SeqsUpTo(S, n) ==
    IF n = 0 THEN {<<>>}
    ELSE LET prev == SeqsUpTo(S, n - 1)
         IN  prev \cup {Append(s, x) : s \in {t \in prev : Len(t) = n - 1}, x \in S}

\* ------------------------------------------------------------------- types
\* Type descriptors of the types that implement BinRead in impls.rs.
IntNames == {"u8", "u16", "u32", "u64", "u128", "i8", "i16", "i32", "i64", "i128"}
FloatNames == {"f32", "f64"}
PrimNames == IntNames \cup FloatNames

\* core::mem::size_of::<$type_name>()
SizeOf(name) ==
    CASE name \in {"u8", "i8"} -> 1
      [] name \in {"u16", "i16"} -> 2
      [] name \in {"u32", "i32", "f32"} -> 4
      [] name \in {"u64", "i64", "f64"} -> 8
      [] name \in {"u128", "i128"} -> 16

Signed(name) == name \in {"i8", "i16", "i32", "i64", "i128"}

Prim(name) == [k |-> "prim", name |-> name]
TChar == [k |-> "char"]
TUnit == [k |-> "unit"]
TPhantom == [k |-> "phantom"]
TVec(t) == [k |-> "vec", elem |-> t]
TArray(t, n) == [k |-> "array", elem |-> t, n |-> n]
TTuple(ts) == [k |-> "tuple", elems |-> ts]
TOption(t) == [k |-> "option", elem |-> t]
TBox(t) == [k |-> "box", elem |-> t]

\* A deferred-offset type: it stores a one-byte offset in the first phase and
\* decodes the value of the numeric type t found at that offset in the second.
TPtr(t) == [k |-> "ptr", elem |-> t]

\* type Args = ...
UnitArgs == [k |-> "unit"]
VecArgs(count, inner) == [count |-> count, inner |-> inner]

\* #[derive(Clone)]: a structural copy.
Clone(args) == args

\* ReadOptions: the byte order is the only setting.
Options(endian) == [endian |-> endian]

\* ------------------------------------------------------------------ errors
NoErr == [kind |-> "none"]
NoVal == [k |-> "none"]

\* The error read_exact gives at end of stream.
EofError == [kind |-> "Io", io |-> "UnexpectedEof", msg |-> "failed to fill whole buffer"]

not_enough_bytes == [kind |-> "Io", io |-> "UnexpectedEof", msg |-> "not enough bytes in reader"]

\* ------------------------------------------------------------------ reader
\* A reader is [data, pos, drain]: the bytes, the 0-based position, and
\* whether a read_exact that hits the end of the stream leaves the position
\* at the end (drain) or where it was: the Read contract leaves it open.
Remaining(r) == Max(Len(r.data) - r.pos, 0)

stream_position(r) == r.pos

Seek(r, p) == [r EXCEPT !.pos = p]

read_exact(r, n) ==
    IF Remaining(r) >= n
    THEN [ok |-> TRUE, bytes |-> SubSeq(r.data, r.pos + 1, r.pos + n),
          r |-> [r EXCEPT !.pos = r.pos + n]]
    ELSE [ok |-> FALSE, bytes |-> <<>>,
          r |-> IF r.drain THEN [r EXCEPT !.pos = Max(r.pos, Len(r.data))] ELSE r]

\* reader.take(limit).read_to_end(bytes): the bytes read and the reader after.
take_read_to_end(r, limit) ==
    LET n == Min(limit, Remaining(r))
    IN  [bytes |-> SubSeq(r.data, r.pos + 1, r.pos + n),
         r |-> [r EXCEPT !.pos = r.pos + n]]

\* ------------------------------------------------------------------- state
VARIABLES
    data,          \* the bytes of the stream
    pos,           \* the stream position (0-based; may lie past the end)
    targetLittle,  \* cfg!(target_endian = "little") of the build
    pc,            \* "idle": no call made yet; "done": a call has returned
    op,            \* the call that returned: entry point, type, byte order, args
    result,        \* what the call returned
    log,           \* the read_options / after_parse calls the call made, in order
    builder,       \* the named-argument builder in construction, or its result
    bresult        \* what finalize gave

streamVars == <<data, pos, targetLittle, pc, op, result, log>>
builderVars == <<builder, bresult>>
vars == <<data, pos, targetLittle, pc, op, result, log, builder, bresult>>

\* --------------------------------------------------------------- primitives
\* from_le_bytes without the byte swap
from_le_bytes_NoSwap(val) == [k |-> "num", digits |-> val]

from_be_bytes(val) == [k |-> "num", digits |-> val]
from_le_bytes(val) == [k |-> "num", digits |-> Reverse(val)]

\* read_options of a primitive that does not seek back after a short read
PrimReadOptions_NoSeek(name, r, options) ==
    LET rx == read_exact(r, SizeOf(name))
    IN  IF ~rx.ok
        THEN [ok |-> FALSE, val |-> NoVal, err |-> EofError, r |-> rx.r, log |-> <<>>]
        ELSE [ok |-> TRUE,
              val |-> CASE options.endian = "Big" -> from_be_bytes(rx.bytes)
                        [] options.endian = "Little" -> from_le_bytes(rx.bytes)
                        [] options.endian = "Native" ->
                              IF targetLittle THEN from_le_bytes(rx.bytes)
                              ELSE from_be_bytes(rx.bytes),
              err |-> NoErr, r |-> rx.r, log |-> <<>>]

\* binread_impl!: read_options of u8 .. f64
PrimReadOptions(name, r, options) ==
    LET p == stream_position(r)
        rx == read_exact(r, SizeOf(name))
    IN  IF ~rx.ok
        THEN [ok |-> FALSE, val |-> NoVal, err |-> EofError, r |-> Seek(rx.r, p), log |-> <<>>]
        ELSE [ok |-> TRUE,
              val |-> CASE options.endian = "Big" -> from_be_bytes(rx.bytes)
                        [] options.endian = "Little" -> from_le_bytes(rx.bytes)
                        [] options.endian = "Native" ->
                              IF targetLittle THEN from_le_bytes(rx.bytes)
                              ELSE from_be_bytes(rx.bytes),
              err |-> NoErr, r |-> rx.r, log |-> <<>>]

\* impl BinRead for (): consumes nothing
UnitReadOptions(r) ==
    [ok |-> TRUE, val |-> [k |-> "unit"], err |-> NoErr, r |-> r, log |-> <<>>]

\* impl BinRead for PhantomData<T>: consumes nothing
PhantomReadOptions(r) ==
    [ok |-> TRUE, val |-> [k |-> "phantom"], err |-> NoErr, r |-> r, log |-> <<>>]

\* --------------------------------------------------------------- composites
ReadEvent(T, options, args, path, r) ==
    [ev |-> "read_options", path |-> path, ty |-> T, endian |-> options.endian,
     args |-> args, at |-> r.pos]

AfterEvent(T, options, args, path, r) ==
    [ev |-> "after_parse", path |-> path, ty |-> T, endian |-> options.endian,
     args |-> args, at |-> r.pos]

Failed(e) == [ok |-> FALSE, val |-> NoVal, err |-> e.err, r |-> e.r, log |-> e.log]

RECURSIVE ReadOptions(_, _, _, _, _)
RECURSIVE VecLoop(_, _, _, _, _, _, _)
RECURSIVE ArrayLoop(_, _, _, _, _, _, _, _)
RECURSIVE TupleLoop(_, _, _, _, _, _)

\* impl BinRead for char: <u8>::read_options(..)? as char
CharReadOptions(r, options, path) ==
    LET b == ReadOptions(Prim("u8"), r, options, UnitArgs, path)
    IN  IF ~b.ok THEN Failed(b)
        ELSE [b EXCEPT !.val = [k |-> "char", cp |-> b.val.digits[1]]]

\* the element loop that keeps what it has when an element fails
VecLoop_Salvage(B, r, options, args, path, i, list) ==
    IF i >= args.count
    THEN [ok |-> TRUE, val |-> [k |-> "vec", items |-> list], err |-> NoErr,
          r |-> r, log |-> <<>>]
    ELSE LET e == ReadOptions(B, r, options, Clone(args.inner), Append(path, i))
         IN  IF ~e.ok
             THEN [ok |-> TRUE, val |-> [k |-> "vec", items |-> list], err |-> NoErr,
                   r |-> e.r, log |-> e.log]
             ELSE LET rest == VecLoop(B, e.r, options, args, path, i + 1,
                                      Append(list, e.val))
                  IN  [rest EXCEPT !.log = e.log \o @]

\* Vec<B>::read_options, the else branch: for _ in 0..args.count { list.push(..?) }
VecLoop(B, r, options, args, path, i, list) ==
    IF i >= args.count
    THEN [ok |-> TRUE, val |-> [k |-> "vec", items |-> list], err |-> NoErr,
          r |-> r, log |-> <<>>]
    ELSE LET e == ReadOptions(B, r, options, Clone(args.inner), Append(path, i))
         IN  IF ~e.ok THEN Failed(e)
             ELSE LET rest == VecLoop(B, e.r, options, args, path, i + 1,
                                      Append(list, e.val))
                  IN  [rest EXCEPT !.log = e.log \o @]

\* the Vec<u8> branch without the check of the number of bytes read
VecReadBytes_Unchecked(r, args) ==
    LET t == take_read_to_end(r, args.count)
    IN  [ok |-> TRUE,
         val |-> [k |-> "vec",
                  items |-> [i \in 1..Len(t.bytes) |->
                                [k |-> "num", digits |-> <<t.bytes[i]>>]]],
         err |-> NoErr, r |-> t.r, log |-> <<>>]

\* Vec<B>::read_options, the Vec<u8> branch: one bulk read of args.count bytes
VecReadBytes(r, args) ==
    LET t == take_read_to_end(r, args.count)
        byte_count == Len(t.bytes)
    IN  IF byte_count = args.count
        THEN [ok |-> TRUE,
              val |-> [k |-> "vec",
                       items |-> [i \in 1..byte_count |->
                                     [k |-> "num", digits |-> <<t.bytes[i]>>]]],
              err |-> NoErr, r |-> t.r, log |-> <<>>]
        ELSE [ok |-> FALSE, val |-> NoVal, err |-> not_enough_bytes, r |-> t.r,
              log |-> <<>>]

\* <dyn Any>::downcast_mut::<Vec<u8>>(&mut list) is Some
IsVecU8(B) == B = Prim("u8")

\* Vec<B>::read_options with the loop running over 1..args.count
VecReadOptions_FromOne(B, r, options, args, path) ==
    IF IsVecU8(B) THEN VecReadBytes(r, args)
    ELSE VecLoop(B, r, options, args, path, 1, <<>>)

\* impl BinRead for Vec<B>: read_options
VecReadOptions(B, r, options, args, path) ==
    IF IsVecU8(B) THEN VecReadBytes(r, args)
    ELSE VecLoop(B, r, options, args, path, 0, <<>>)

\* array_init::try_array_init(|_| BinRead::read_options(reader, options, args.clone()))
ArrayLoop(B, N, r, options, args, path, i, list) ==
    IF i >= N
    THEN [ok |-> TRUE, val |-> [k |-> "array", items |-> list], err |-> NoErr,
          r |-> r, log |-> <<>>]
    ELSE LET e == ReadOptions(B, r, options, Clone(args), Append(path, i))
         IN  IF ~e.ok THEN Failed(e)
             ELSE LET rest == ArrayLoop(B, N, e.r, options, args, path, i + 1,
                                        Append(list, e.val))
                  IN  [rest EXCEPT !.log = e.log \o @]

\* [B; N]::read_options reporting every failure as not_enough_bytes
ArrayReadOptions_MapErr(B, N, r, options, args, path) ==
    LET out == ArrayLoop(B, N, r, options, args, path, 0, <<>>)
    IN  IF out.ok THEN out ELSE [out EXCEPT !.err = not_enough_bytes]

\* impl BinRead for [B; N]: read_options
ArrayReadOptions(B, N, r, options, args, path) ==
    ArrayLoop(B, N, r, options, args, path, 0, <<>>)

\* binread_tuple_impl!: read_options, position by position, each with ()
TupleLoop(Ts, r, options, path, i, list) ==
    IF i >= Len(Ts)
    THEN [ok |-> TRUE, val |-> [k |-> "tuple", items |-> list], err |-> NoErr,
          r |-> r, log |-> <<>>]
    ELSE LET e == ReadOptions(Ts[i + 1], r, options, UnitArgs, Append(path, i))
         IN  IF ~e.ok THEN Failed(e)
             ELSE LET rest == TupleLoop(Ts, e.r, options, path, i + 1,
                                        Append(list, e.val))
                  IN  [rest EXCEPT !.log = e.log \o @]

\* the tuple read_options handing its positions fresh options
TupleReadOptions_FreshOptions(Ts, r, options, path) ==
    TupleLoop(Ts, r, Options("Native"), path, 0, <<>>)

TupleReadOptions(Ts, r, options, path) == TupleLoop(Ts, r, options, path, 0, <<>>)

\* impl BinRead for Box<T>: Ok(Box::new(T::read_options(reader, options, args)?))
BoxReadOptions(T, r, options, args, path) ==
    LET e == ReadOptions(T, r, options, args, Append(path, 0))
    IN  IF ~e.ok THEN Failed(e)
        ELSE [e EXCEPT !.val = [k |-> "box", val |-> e.val]]

\* impl BinRead for Option<T>: Ok(Some(T::read_options(reader, options, args)?))
OptionReadOptions(T, r, options, args, path) ==
    LET e == ReadOptions(T, r, options, args, Append(path, 0))
    IN  IF ~e.ok THEN Failed(e)
        ELSE [e EXCEPT !.val = [k |-> "option", some |-> TRUE, val |-> e.val]]

\* The first phase of the deferred-offset type: the offset is read as a u8,
\* the referenced value is not yet there.
PtrReadOptions(T, r, options, path) ==
    LET b == ReadOptions(Prim("u8"), r, options, UnitArgs, path)
    IN  IF ~b.ok THEN Failed(b)
        ELSE [b EXCEPT !.val = [k |-> "ptr", ptr |-> b.val.digits[1],
                                some |-> FALSE, val |-> NoVal]]

\* T::read_options(reader, options, args), for each T; the call is recorded
\* in the log before the calls it makes.
ReadOptions(T, r, options, args, path) ==
    LET out == CASE T.k = "prim" -> PrimReadOptions(T.name, r, options)
                 [] T.k = "char" -> CharReadOptions(r, options, path)
                 [] T.k = "unit" -> UnitReadOptions(r)
                 [] T.k = "phantom" -> PhantomReadOptions(r)
                 [] T.k = "vec" -> VecReadOptions(T.elem, r, options, args, path)
                 [] T.k = "array" -> ArrayReadOptions(T.elem, T.n, r, options, args, path)
                 [] T.k = "tuple" -> TupleReadOptions(T.elems, r, options, path)
                 [] T.k = "box" -> BoxReadOptions(T.elem, r, options, args, path)
                 [] T.k = "option" -> OptionReadOptions(T.elem, r, options, args, path)
                 [] T.k = "ptr" -> PtrReadOptions(T.elem, r, options, path)
    IN  [out EXCEPT !.log = <<ReadEvent(T, options, args, path, r)>> \o @]

\* -------------------------------------------------------------- after_parse
\* after_parse takes &mut self: `val` is the value as the call leaves it.
Done(v, r) == [ok |-> TRUE, val |-> v, err |-> NoErr, r |-> r, log |-> <<>>]

\* BinRead::after_parse, the provided method: Ok(())
DefaultAfterParse(v, r) == Done(v, r)

RECURSIVE AfterParse(_, _, _, _, _, _)
RECURSIVE IterAfterParse(_, _, _, _, _, _, _)
RECURSIVE TupleAfterLoop(_, _, _, _, _, _)

\* for val in self.iter_mut() { val.after_parse(reader, ro, <args>.clone())?; }
IterAfterParse(B, items, r, options, inner, path, i) ==
    IF i >= Len(items) THEN Done(items, r)
    ELSE LET e == AfterParse(B, items[i + 1], r, options, Clone(inner), Append(path, i))
         IN  IF ~e.ok THEN e
             ELSE LET rest == IterAfterParse(B, [items EXCEPT ![i + 1] = e.val], e.r,
                                             options, inner, path, i + 1)
                  IN  [rest EXCEPT !.log = e.log \o @]

\* Vec<B>::after_parse
VecAfterParse(B, v, r, options, args, path) ==
    LET out == IterAfterParse(B, v.items, r, options, args.inner, path, 0)
    IN  IF ~out.ok THEN out ELSE [out EXCEPT !.val = [v EXCEPT !.items = out.val]]

\* [B; N]::after_parse
ArrayAfterParse(B, v, r, options, args, path) ==
    LET out == IterAfterParse(B, v.items, r, options, args, path, 0)
    IN  IF ~out.ok THEN out ELSE [out EXCEPT !.val = [v EXCEPT !.items = out.val]]

\* binread_tuple_impl!: after_parse
TupleAfterLoop(Ts, items, r, options, path, i) ==
    IF i >= Len(Ts) THEN Done(items, r)
    ELSE LET e == AfterParse(Ts[i + 1], items[i + 1], r, options, UnitArgs, Append(path, i))
         IN  IF ~e.ok THEN e
             ELSE LET rest == TupleAfterLoop(Ts, [items EXCEPT ![i + 1] = e.val], e.r,
                                             options, path, i + 1)
                  IN  [rest EXCEPT !.log = e.log \o @]

TupleAfterParse(Ts, v, r, options, path) ==
    LET out == TupleAfterLoop(Ts, v.items, r, options, path, 0)
    IN  IF ~out.ok THEN out ELSE [out EXCEPT !.val = [v EXCEPT !.items = out.val]]

\* Option<T>::after_parse
OptionAfterParse(T, v, r, options, args, path) ==
    IF v.some
    THEN LET out == AfterParse(T, v.val, r, options, args, Append(path, 0))
         IN  IF ~out.ok THEN out ELSE [out EXCEPT !.val = [v EXCEPT !.val = out.val]]
    ELSE Done(v, r)

\* Box<T> overrides nothing: its after_parse is the provided method
BoxAfterParse(T, v, r, options, args, path) == DefaultAfterParse(v, r)

\* The second phase of the deferred-offset type: seek to the stored offset,
\* decode the referenced value there (a numeric primitive), finalize it; a
\* failure of either is the failure of the phase.
PtrAfterParse(T, v, r, options, args, path) ==
    LET at == Seek(r, v.ptr)
        e == PrimReadOptions(T.name, at, options)
        called == <<ReadEvent(T, options, args, Append(path, 0), at)>>
    IN  IF ~e.ok THEN [Failed(e) EXCEPT !.log = called]
        ELSE LET f == AfterParse(T, e.val, e.r, options, args, Append(path, 0))
             IN  IF ~f.ok THEN [f EXCEPT !.log = called \o @]
                 ELSE [f EXCEPT !.val = [v EXCEPT !.some = TRUE, !.val = f.val],
                                !.log = called \o @]

\* val.after_parse(reader, options, args), for each type
AfterParse(T, v, r, options, args, path) ==
    LET out == CASE T.k = "vec" -> VecAfterParse(T.elem, v, r, options, args, path)
                 [] T.k = "array" -> ArrayAfterParse(T.elem, v, r, options, args, path)
                 [] T.k = "tuple" -> TupleAfterParse(T.elems, v, r, options, path)
                 [] T.k = "option" -> OptionAfterParse(T.elem, v, r, options, args, path)
                 [] T.k = "box" -> BoxAfterParse(T.elem, v, r, options, args, path)
                 [] T.k = "ptr" -> PtrAfterParse(T.elem, v, r, options, args, path)
                 [] OTHER -> DefaultAfterParse(v, r)
    IN  [out EXCEPT !.log = <<AfterEvent(T, options, args, path, r)>> \o @]

\* ------------------------------------------------------------- entry points
\* ReadOptions::default() holds the default byte order, which the sources at
\* hand do not fix: the callers below are given it as `dflt`.
ReadOptions_default(dflt) == Options(dflt)

\* ReadOptions::with_endian
with_endian(options, endian) == [options EXCEPT !.endian = endian]

\* Whether T::Args is (), the one built-in argument type that is Default:
\* VecArgs derives BinrwNamedArgs and Clone only.
RECURSIVE ArgsIsUnit(_)
ArgsIsUnit(T) ==
    CASE T.k \in {"prim", "char", "unit", "phantom", "tuple"} -> TRUE
      [] T.k \in {"array", "option", "box", "ptr"} -> ArgsIsUnit(T.elem)
      [] T.k = "vec" -> FALSE

\* Self::Args::default()
ArgsDefault(T) == UnitArgs

\* BinRead::read
BinRead_read(T, r, dflt) ==
    ReadOptions(T, r, ReadOptions_default(dflt), ArgsDefault(T), <<>>)

\* BinRead::read_args
BinRead_read_args(T, r, dflt, args) ==
    ReadOptions(T, r, ReadOptions_default(dflt), args, <<>>)

\* read_type_args dropping the `?` after after_parse
read_type_args_IgnoreAfterError(T, r, dflt, endian, args) ==
    LET options == with_endian(ReadOptions_default(dflt), endian)
        res == ReadOptions(T, r, options, Clone(args), <<>>)
    IN  IF ~res.ok THEN res
        ELSE LET ap == AfterParse(T, res.val, res.r, options, args, <<>>)
             IN  [ok |-> TRUE, val |-> res.val, err |-> NoErr, r |-> ap.r,
                  log |-> res.log \o ap.log]

\* BinReaderExt::read_type_args
read_type_args(T, r, dflt, endian, args) ==
    LET options == with_endian(ReadOptions_default(dflt), endian)
        res == ReadOptions(T, r, options, Clone(args), <<>>)
    IN  IF ~res.ok THEN res
        ELSE LET ap == AfterParse(T, res.val, res.r, options, args, <<>>)
             IN  IF ~ap.ok
                 THEN [ok |-> FALSE, val |-> NoVal, err |-> ap.err, r |-> ap.r,
                       log |-> res.log \o ap.log]
                 ELSE [ok |-> TRUE, val |-> ap.val, err |-> NoErr, r |-> ap.r,
                       log |-> res.log \o ap.log]

\* BinReaderExt::read_type
read_type(T, r, dflt, endian) == read_type_args(T, r, dflt, endian, ArgsDefault(T))

read_be(T, r, dflt) == read_type(T, r, dflt, "Big")
read_le(T, r, dflt) == read_type(T, r, dflt, "Little")
read_ne(T, r, dflt) == read_type(T, r, dflt, "Native")
read_be_args(T, r, dflt, args) == read_type_args(T, r, dflt, "Big", args)
read_le_args(T, r, dflt, args) == read_type_args(T, r, dflt, "Little", args)
read_ne_args(T, r, dflt, args) == read_type_args(T, r, dflt, "Native", args)

\* ------------------------------------------------------------------ inputs
\* The types and arguments the calls are made with.
U8 == Prim("u8")
U16 == Prim("u16")

Wrap(S) ==
    {TVec(t) : t \in S} \cup {TArray(t, n) : t \in S, n \in 0..MaxN}
        \cup {TOption(t) : t \in S} \cup {TBox(t) : t \in S}

LeafTypes == {Prim(n) : n \in PrimNames} \cup {TChar, TUnit, TPhantom}

TupleTypes ==
    {TTuple(<<U8>>),
     TTuple(<<U16, U8>>),
     TTuple(<<TBox(U8), TOption(U16), TUnit>>),
     TTuple(<<U8, TArray(U8, MaxN), TTuple(<<U16>>)>>)}

NestedTypes ==
    {TVec(TVec(U8)), TArray(TVec(U16), MaxN), TOption(TBox(U8)), TBox(TOption(U16)),
     TVec(TBox(U8)), TBox(TVec(U16)), TOption(TTuple(<<U16, U8>>)),
     TVec(TTuple(<<TBox(U8), U16>>)), TArray(TChar, MaxN), TVec(Prim("i32"))}

\* The types read_options is called with directly.
Types == LeafTypes \cup Wrap({U8, U16}) \cup TupleTypes \cup NestedTypes

\* The types the one-shot entry points are called with.
EntryTypes ==
    {U16, TTuple(<<U16, U8>>), TOption(TBox(U8)), TVec(U16), TArray(TVec(U8), MaxN)}

\* The types with a second phase that can fail, read through read_type_args.
PtrTypes == {TPtr(U16), TTuple(<<U8, TPtr(U16)>>), TOption(TPtr(U8))}

RECURSIVE ArgsOf(_)
ArgsOf(T) ==
    CASE T.k = "vec" -> {VecArgs(c, a) : c \in 0..MaxCount, a \in ArgsOf(T.elem)}
      [] T.k \in {"array", "option", "box", "ptr"} -> ArgsOf(T.elem)
      [] OTHER -> {UnitArgs}

\* A stream long enough for every primitive: size_of::<u128>() bytes.
WideStream == [i \in 1..SizeOf("u128") |-> IF i = 1 THEN 255 ELSE IF i = 9 THEN 7 ELSE 0]

Streams == SeqsUpTo(Bytes, MaxLen) \cup {WideStream}

\* -------------------------------------------------------------------- calls
Reader(d) == [data |-> data, pos |-> pos, drain |-> d]

NoOp == [entry |-> "none"]
NoResult == [ok |-> FALSE, val |-> NoVal, err |-> NoErr]

\* A call of an entry point has returned `out`.
Return(out, entry, T, endian, args) ==
    /\ pc = "idle"
    /\ pc' = "done"
    /\ op' = [entry |-> entry, ty |-> T, endian |-> endian, args |-> args, at |-> pos]
    /\ result' = [ok |-> out.ok, val |-> out.val, err |-> out.err]
    /\ log' = out.log
    /\ pos' = out.r.pos
    /\ UNCHANGED <<data, targetLittle, builder, bresult>>

Read(T) ==
    /\ ArgsIsUnit(T)
    /\ \E d \in BOOLEAN, dflt \in Endians :
          Return(BinRead_read(T, Reader(d), dflt), "read", T, dflt, ArgsDefault(T))

ReadArgs(T, args) ==
    /\ pc = "idle"
    /\ \E d \in BOOLEAN, dflt \in Endians :
          Return(BinRead_read_args(T, Reader(d), dflt, args), "read_args", T, dflt, args)

CallReadOptions(T, endian, args) ==
    /\ pc = "idle"
    /\ \E d \in BOOLEAN :
          Return(ReadOptions(T, Reader(d), Options(endian), args, <<>>),
                 "read_options", T, endian, args)

ReadType(T, endian) ==
    /\ ArgsIsUnit(T)
    /\ \E d \in BOOLEAN, dflt \in Endians :
          Return(read_type(T, Reader(d), dflt, endian), "read_type", T, endian,
                 ArgsDefault(T))

ReadBe(T) ==
    /\ ArgsIsUnit(T)
    /\ \E d \in BOOLEAN, dflt \in Endians :
          Return(read_be(T, Reader(d), dflt), "read_be", T, "Big", ArgsDefault(T))

ReadLe(T) ==
    /\ ArgsIsUnit(T)
    /\ \E d \in BOOLEAN, dflt \in Endians :
          Return(read_le(T, Reader(d), dflt), "read_le", T, "Little", ArgsDefault(T))

ReadNe(T) ==
    /\ ArgsIsUnit(T)
    /\ \E d \in BOOLEAN, dflt \in Endians :
          Return(read_ne(T, Reader(d), dflt), "read_ne", T, "Native", ArgsDefault(T))

ReadTypeArgs(T, endian, args) ==
    /\ pc = "idle"
    /\ \E d \in BOOLEAN, dflt \in Endians :
          Return(read_type_args(T, Reader(d), dflt, endian, args), "read_type_args", T,
                 endian, args)

ReadBeArgs(T, args) ==
    /\ pc = "idle"
    /\ \E d \in BOOLEAN, dflt \in Endians :
          Return(read_be_args(T, Reader(d), dflt, args), "read_be_args", T, "Big", args)

ReadLeArgs(T, args) ==
    /\ pc = "idle"
    /\ \E d \in BOOLEAN, dflt \in Endians :
          Return(read_le_args(T, Reader(d), dflt, args), "read_le_args", T, "Little", args)

ReadNeArgs(T, args) ==
    /\ pc = "idle"
    /\ \E d \in BOOLEAN, dflt \in Endians :
          Return(read_ne_args(T, Reader(d), dflt, args), "read_ne_args", T, "Native", args)

\* The caller of read_options, read or read_args runs the second phase on the
\* value it was given, with the options and arguments of the decode.
CallAfterParse ==
    /\ pc = "done"
    /\ result.ok
    /\ op.entry \in {"read_options", "read", "read_args"}
    /\ \E d \in BOOLEAN :
          LET ap == AfterParse(op.ty, result.val, Reader(d), Options(op.endian),
                               op.args, <<>>)
          IN  /\ pc' = "finalized"
              /\ log' = log \o ap.log
              /\ pos' = ap.r.pos
              /\ result' = IF ap.ok THEN [result EXCEPT !.val = ap.val]
                           ELSE [ok |-> FALSE, val |-> NoVal, err |-> ap.err]
    /\ UNCHANGED <<data, targetLittle, op, builder, bresult>>

\* The caller takes the result; the stream stays where the call left it.
Continue ==
    /\ pc \in {"done", "finalized"}
    /\ pc' = "idle"
    /\ op' = NoOp
    /\ result' = NoResult
    /\ log' = <<>>
    /\ UNCHANGED <<data, pos, targetLittle, builder, bresult>>

\* The caller repositions the stream (a cursor may be put past its end).
SeekTo(p) ==
    /\ pc = "idle"
    /\ p <= Len(data) + 1
    /\ p /= pos
    /\ pos' = p
    /\ UNCHANGED <<data, targetLittle, pc, op, result, log, builder, bresult>>

NoBuilder == [struct |-> "none"]
NoBuilt == [ok |-> FALSE, done |-> FALSE]

Init ==
    /\ data \in Streams
    /\ pos = 0
    /\ targetLittle \in BOOLEAN
    /\ pc = "idle"
    /\ op = NoOp
    /\ result = NoResult
    /\ log = <<>>
    /\ builder = NoBuilder
    /\ bresult = NoBuilt

Next ==
    \/ \E T \in EntryTypes : Read(T)
    \/ \E T \in EntryTypes : \E args \in ArgsOf(T) : ReadArgs(T, args)
    \/ \E T \in Types : \E e \in Endians : \E args \in ArgsOf(T) : CallReadOptions(T, e, args)
    \/ \E T \in EntryTypes : \E e \in Endians : ReadType(T, e)
    \/ \E T \in EntryTypes : ReadBe(T)
    \/ \E T \in EntryTypes : ReadLe(T)
    \/ \E T \in EntryTypes : ReadNe(T)
    \/ \E T \in EntryTypes \cup PtrTypes : \E e \in Endians : \E args \in ArgsOf(T) :
          ReadTypeArgs(T, e, args)
    \/ \E T \in EntryTypes : \E args \in ArgsOf(T) : ReadBeArgs(T, args)
    \/ \E T \in EntryTypes : \E args \in ArgsOf(T) : ReadLeArgs(T, args)
    \/ \E T \in EntryTypes : \E args \in ArgsOf(T) : ReadNeArgs(T, args)
    \/ CallAfterParse
    \/ Continue
    \/ \E p \in 0..(SizeOf("u128") + 1) : SeekTo(p)

Spec == Init /\ [][Next]_vars

\* ------------------------------------------------- named-argument builder
\* The structs that derive BinrwNamedArgs: VecArgs<B> (for B = () and for
\* B = VecArgs<()>, the arguments of Vec<Vec<_>>) and the Test<String> of
\* tests/builder.rs.  A field is its name, its named_args attributes and its
\* type.
Field(name, attrs, ty) == [name |-> name, attrs |-> attrs, ty |-> ty]

StructFields(S) ==
    CASE S = "VecArgs<()>" ->
            <<Field("count", {}, "usize"), Field("inner", {"try_optional"}, "()")>>
      [] S = "VecArgs<VecArgs<()>>" ->
            <<Field("count", {}, "usize"),
              Field("inner", {"try_optional"}, "VecArgs<()>")>>
      [] S = "Test<String>" ->
            <<Field("blah", {}, "u32"), Field("not_copy", {}, "String"),
              Field("not_clone", {}, "NotClone"), Field("generic", {}, "String")>>

Structs == {"VecArgs<()>", "VecArgs<VecArgs<()>>", "Test<String>"}

\* the derive taking every field for Required
FieldKind_AlwaysRequired(field) == "Required"

\* derive_binrw_named_args: TryOptional if any attribute is try_optional,
\* Required otherwise
FieldKind(field) ==
    IF \E attr \in field.attrs : attr = "try_optional" THEN "TryOptional"
    ELSE "Required"

\* Whether the field's type is Default: NotClone and VecArgs derive no Default.
HasDefault(ty) == ty \in {"()", "usize", "u32", "String"}

DefaultOf(ty) ==
    CASE ty = "()" -> UnitArgs
      [] ty \in {"usize", "u32"} -> 0
      [] ty = "String" -> ""

\* The values a caller supplies for a field of the type.
ValuesOf(ty) ==
    CASE ty = "()" -> {UnitArgs}
      [] ty = "usize" -> {0, 3}
      [] ty = "u32" -> {3}
      [] ty = "String" -> {"a string here", "generic string :o"}
      [] ty = "NotClone" -> {[k |-> "NotClone"]}
      [] ty = "VecArgs<()>" -> {VecArgs(c, UnitArgs) : c \in {0, 2}}

FieldIndex(S) == 1..Len(StructFields(S))
FieldNames(S) == {StructFields(S)[i].name : i \in FieldIndex(S)}
FieldOf(S, name) == StructFields(S)[CHOOSE i \in FieldIndex(S) : StructFields(S)[i].name = name]

Unset == [set |-> FALSE]
Supplied(x) == [set |-> TRUE, v |-> x]

\* T::builder(): nothing supplied yet
NewBuilderOf(S) ==
    [struct |-> S, set |-> [n \in FieldNames(S) |-> Unset], order |-> <<>>]

\* the setter of field `name`
Setter(b, name, x) ==
    [b EXCEPT !.set[name] = Supplied(x), !.order = Append(@, name)]

\* finalize(): fails if a Required field is unset, or if an unset TryOptional
\* field has no default; otherwise the aggregate, defaults filled in
finalize(b) ==
    LET S == b.struct
        missing == {n \in FieldNames(S) :
                       FieldKind(FieldOf(S, n)) = "Required" /\ ~b.set[n].set}
        nodefault == {n \in FieldNames(S) :
                         /\ FieldKind(FieldOf(S, n)) = "TryOptional"
                         /\ ~b.set[n].set
                         /\ ~HasDefault(FieldOf(S, n).ty)}
    IN  IF missing /= {} THEN [ok |-> FALSE, done |-> TRUE, why |-> "required field unset"]
        ELSE IF nodefault /= {} THEN [ok |-> FALSE, done |-> TRUE, why |-> "no default"]
        ELSE [ok |-> TRUE, done |-> TRUE,
              val |-> [n \in FieldNames(S) |->
                          IF b.set[n].set THEN b.set[n].v
                          ELSE DefaultOf(FieldOf(S, n).ty)]]

NewBuilder(S) ==
    /\ builder = NoBuilder
    /\ builder' = NewBuilderOf(S)
    /\ UNCHANGED <<bresult, data, pos, targetLittle, pc, op, result, log>>

Supply(name, x) ==
    /\ builder /= NoBuilder
    /\ ~bresult.done
    /\ name \in FieldNames(builder.struct)
    /\ ~builder.set[name].set
    /\ builder' = Setter(builder, name, x)
    /\ UNCHANGED <<bresult, data, pos, targetLittle, pc, op, result, log>>

Finalize ==
    /\ builder /= NoBuilder
    /\ ~bresult.done
    /\ bresult' = finalize(builder)
    /\ UNCHANGED <<builder, data, pos, targetLittle, pc, op, result, log>>

\* The caller takes the aggregate (or the failure) and starts over.
Discard ==
    /\ bresult.done
    /\ builder' = NoBuilder
    /\ bresult' = NoBuilt
    /\ UNCHANGED <<data, pos, targetLittle, pc, op, result, log>>

BuilderInit ==
    /\ data = <<>>
    /\ pos = 0
    /\ targetLittle = TRUE
    /\ pc = "idle"
    /\ op = NoOp
    /\ result = NoResult
    /\ log = <<>>
    /\ builder = NoBuilder
    /\ bresult = NoBuilt

BuilderNext ==
    \/ \E S \in Structs : NewBuilder(S)
    \/ \E S \in Structs : \E i \in FieldIndex(S) :
          \E x \in ValuesOf(StructFields(S)[i].ty) : Supply(StructFields(S)[i].name, x)
    \/ Finalize
    \/ Discard

SpecBuilder == BuilderInit /\ [][BuilderNext]_vars

\* ===================================================================
\* Properties
\* ===================================================================
Called == pc \in {"done", "finalized"}

\* The bytes left at the position the call started from.
RemainingAt(p) == Max(Len(data) - p, 0)
BytesAt(p, n) == SubSeq(data, p + 1, p + n)

\* ---- the number a numeral denotes
RECURSIVE Horner(_)
Horner(ds) == IF ds = <<>> THEN 0 ELSE Horner(SubSeq(ds, 1, Len(ds) - 1)) * 256 + ds[Len(ds)]

Complement(ds) == [i \in 1..Len(ds) |-> 255 - ds[i]]

Negative(name, ds) == Signed(name) /\ ds[1] >= 128

\* The numeral's value fits 24 bits (so that TLC can compute with it).
Small(ds) == \A i \in 1..Len(ds) : i <= Len(ds) - 3 => ds[i] = 0

Fits(name, ds) == IF Negative(name, ds) THEN Small(Complement(ds)) ELSE Small(ds)

\* Two's complement for the signed types.
IntOf(name, ds) ==
    IF Negative(name, ds) THEN -1 - Horner(Complement(ds)) ELSE Horner(ds)

\* v.to_le_bytes() and v.to_be_bytes() at a width of n bytes
RECURSIVE to_le_bytes(_, _)
to_le_bytes(v, n) == IF n = 0 THEN <<>> ELSE <<v % 256>> \o to_le_bytes(v \div 256, n - 1)
to_be_bytes(v, n) == Reverse(to_le_bytes(v, n))

\* The byte order a byte order resolves to on this build.
Resolved(endian) ==
    IF endian = "Native" THEN (IF targetLittle THEN "Little" ELSE "Big") ELSE endian

\* ------------------------------------------------------------------- C1
\* C1: a read_options of a fixed-width numeric type (u8..u128, i8..i128,
\* f32, f64), under any byte order, from a stream with fewer than
\* size_of bytes left, returns an I/O error and leaves the stream position
\* where it was before the call.
C1_ShortReadRestoresPosition ==
    (/\ pc = "done"
     /\ op.ty.k = "prim"
     /\ RemainingAt(op.at) < SizeOf(op.ty.name))
    => (/\ ~result.ok
        /\ result.val = NoVal
        /\ result.err.kind = "Io"
        /\ pos = op.at)

\* A short read with some, but not enough, bytes left: the failed read_exact
\* had bytes to consume.
C1_Witness ==
    /\ pc = "done"
    /\ op.entry = "read_options"
    /\ op.ty = Prim("f32")
    /\ op.at = 1
    /\ RemainingAt(op.at) = 2
    /\ ~result.ok
    /\ pos = 1

\* ------------------------------------------------------------------- C2
\* C2: a read_options of a fixed-width integer type from a stream with at
\* least size_of bytes left succeeds, advances the position by exactly
\* size_of, and returns the bytes read as a number: first byte most
\* significant under Big, first byte least significant under Little, and
\* the host's one of the two under Native; the number's big-endian encoding
\* is the bytes read under Big and its little-endian encoding the bytes read
\* under Little.
C2_IntegerDecode ==
    (/\ pc = "done"
     /\ op.ty.k = "prim"
     /\ op.ty.name \in IntNames
     /\ RemainingAt(op.at) >= SizeOf(op.ty.name))
    => LET n == SizeOf(op.ty.name)
           bytes == BytesAt(op.at, n)
           ds == result.val.digits
           order == Resolved(op.endian)
       IN  /\ result.ok
           /\ pos = op.at + n
           /\ Len(ds) = n
           /\ order = "Big" => \A i \in 1..n : ds[i] = bytes[i]
           /\ order = "Little" => \A i \in 1..n : ds[i] = bytes[n + 1 - i]
           /\ Fits(op.ty.name, ds) =>
                 /\ order = "Big" => to_be_bytes(IntOf(op.ty.name, ds), n) = bytes
                 /\ order = "Little" => to_le_bytes(IntOf(op.ty.name, ds), n) = bytes

\* The bytes 00 FF read as a little-endian i16 give -256.
C2_Witness ==
    /\ pc = "done"
    /\ op.ty = Prim("i16")
    /\ op.endian = "Little"
    /\ result.ok
    /\ BytesAt(op.at, 2) = <<0, 255>>
    /\ IntOf("i16", result.val.digits) = -256
    /\ pos = op.at + 2

\* Every width is decoded: a u128 read from the 16-byte stream.
C2_WideDecoded ==
    /\ pc = "done"
    /\ op.ty = Prim("u128")
    /\ op.endian = "Little"
    /\ result.ok
    /\ result.val.digits[16] = 255

\* ---- the calls a call made
ReadEvents == SelectSeq(log, LAMBDA e : e.ev = "read_options")
AfterEvents == SelectSeq(log, LAMBDA e : e.ev = "after_parse")
PathsOf(events) == [i \in 1..Len(events) |-> events[i].path]

\* The sub-values of a value, each by its path, in the order they were
\* decoded: a value before its children, the children in stream order.
RECURSIVE ValuePaths(_, _)
RECURSIVE ItemsPaths(_, _, _)
ItemsPaths(items, path, i) ==
    IF i > Len(items) THEN <<>>
    ELSE ValuePaths(items[i], Append(path, i - 1)) \o ItemsPaths(items, path, i + 1)

ValuePaths(v, path) ==
    CASE v.k \in {"vec", "array", "tuple"} -> <<path>> \o ItemsPaths(v.items, path, 1)
      [] v.k = "box" -> <<path>> \o ValuePaths(v.val, Append(path, 0))
      [] v.k = "option" ->
            <<path>> \o (IF v.some THEN ValuePaths(v.val, Append(path, 0)) ELSE <<>>)
      [] v.k = "ptr" ->
            <<path>> \o (IF v.some THEN ValuePaths(v.val, Append(path, 0)) ELSE <<>>)
      [] OTHER -> <<path>>

RECURSIVE ContainsBox(_)
ContainsBox(T) ==
    CASE T.k = "box" -> TRUE
      [] T.k \in {"vec", "array", "option"} -> ContainsBox(T.elem)
      [] T.k = "tuple" -> \E i \in 1..Len(T.elems) : ContainsBox(T.elems[i])
      [] OTHER -> FALSE

ReaderExtEntries ==
    {"read_type", "read_be", "read_le", "read_ne",
     "read_type_args", "read_be_args", "read_le_args", "read_ne_args"}
OneShotEntries == {"read", "read_args"} \cup ReaderExtEntries

\* The second phase has run over a successfully decoded value.
FinalizeRan ==
    \/ pc = "finalized" /\ result.ok
    \/ pc = "done" /\ result.ok /\ op.entry \in ReaderExtEntries

\* ------------------------------------------------------------------- C3
\* C3: when after_parse is invoked on a successfully decoded value built of
\* Option, Box, array, Vec and tuple wrappers, it is invoked exactly once on
\* every sub-value (the value inside a Box included), in the order in which
\* the sub-values were decoded.
C3_FinalizeReachesEverySubValue ==
    FinalizeRan => PathsOf(AfterEvents) = ValuePaths(result.val, <<>>)

\* What does hold: the same, for the types that hold no Box.
C3_FinalizeWithoutBox ==
    (FinalizeRan /\ ~ContainsBox(op.ty))
    => PathsOf(AfterEvents) = ValuePaths(result.val, <<>>)

\* ------------------------------------------------------------------- C4
\* C4: every one-shot entry point (BinRead::read, BinRead::read_args, and
\* read_type / read_be / read_le / read_ne with their _args variants) runs
\* after_parse on the decoded value, with the options and a duplicate of
\* the arguments of the decode, after the decode has succeeded and before
\* the value is returned.
\* The read_options calls made before the first after_parse call.
PrimaryLen ==
    CHOOSE n \in 0..Len(log) :
       /\ \A i \in 1..n : log[i].ev = "read_options"
       /\ n < Len(log) => log[n + 1].ev = "after_parse"

RootFinalized ==
    LET n == PrimaryLen
    IN  /\ Len(log) > n
        /\ log[n + 1].ev = "after_parse"
        /\ log[n + 1].path = <<>>
        /\ log[n + 1].ty = op.ty
        /\ log[n + 1].endian = op.endian
        /\ log[n + 1].args = op.args

C4_EveryEntryPointFinalizes ==
    (pc = "done" /\ op.entry \in OneShotEntries /\ result.ok) => RootFinalized

\* What does hold: the entry points of BinReaderExt finalize.
C4_ReaderExtFinalizes ==
    (pc = "done" /\ op.entry \in ReaderExtEntries /\ result.ok) => RootFinalized

\* ------------------------------------------------------------------- C5
\* C5: for every count c and every stream, Vec<u8> decoded with count c by
\* the bulk read gives what the element loop gives for c u8 elements: with
\* at least c bytes left both succeed with the same c bytes, in stream
\* order, and the same final position; with fewer than c bytes left both
\* fail with an end-of-stream I/O error.
IsEofIo(err) == err.kind = "Io" /\ err.io = "UnexpectedEof"

C5_BulkReadMatchesElementLoop ==
    (pc = "done" /\ op.ty = TVec(U8))
    => \A d \in BOOLEAN :
          LET c == op.args.count
              slow == VecLoop(U8, [data |-> data, pos |-> op.at, drain |-> d],
                              Options(op.endian), op.args, <<>>, 0, <<>>)
          IN  /\ RemainingAt(op.at) >= c =>
                    /\ result.ok /\ slow.ok
                    /\ result.val = slow.val
                    /\ pos = slow.r.pos
                    /\ pos = op.at + c
                    /\ Len(result.val.items) = c
                    /\ \A i \in 1..c : result.val.items[i].digits = <<data[op.at + i]>>
              /\ RemainingAt(op.at) < c =>
                    /\ ~result.ok /\ ~slow.ok
                    /\ result.val = NoVal /\ slow.val = NoVal
                    /\ IsEofIo(result.err) /\ IsEofIo(slow.err)

\* Two different bytes read in bulk, not from the start of the stream.
C5_Witness ==
    /\ pc = "done"
    /\ op.ty = TVec(U8)
    /\ op.args.count = 2
    /\ op.at = 1
    /\ result.ok
    /\ result.val.items[1].digits = <<255>>
    /\ result.val.items[2].digits = <<0>>

\* The failing side of C5 happens too: fewer bytes left than asked for.
C5_ShortWitness ==
    /\ pc = "done"
    /\ op.ty = TVec(U8)
    /\ op.args.count = 2
    /\ RemainingAt(op.at) = 1
    /\ ~result.ok

\* ------------------------------------------------------------------- C6
\* C6: for every count c (0 included) and every fixed-width element type of
\* width w, Vec decoded with VecArgs{count: c} from a stream with at least
\* c*w bytes left succeeds, gives exactly c elements, the i-th being the
\* value decoded from the i-th group of w bytes, and advances the position
\* by exactly c*w.
C6_VecOfFixedWidth ==
    (/\ pc = "done"
     /\ op.ty.k = "vec"
     /\ op.ty.elem.k = "prim"
     /\ RemainingAt(op.at) >= op.args.count * SizeOf(op.ty.elem.name))
    => LET c == op.args.count
           w == SizeOf(op.ty.elem.name)
           group(i) == BytesAt(op.at + (i - 1) * w, w)
       IN  /\ result.ok
           /\ Len(result.val.items) = c
           /\ pos = op.at + c * w
           /\ \A i \in 1..c :
                 result.val.items[i].digits =
                    IF Resolved(op.endian) = "Big" THEN group(i) ELSE Reverse(group(i))

\* Two u16 elements, read little-endian from the 16-byte stream.
C6_Witness ==
    /\ pc = "done"
    /\ op.ty = TVec(U16)
    /\ op.args.count = 2
    /\ op.endian = "Little"
    /\ op.at = 0
    /\ result.ok
    /\ Len(result.val.items) = 2
    /\ result.val.items[1].digits = <<0, 255>>
    /\ pos = 4

\* ---- the element decodes of a top-level Vec or array
SlotEvents ==
    SelectSeq(log, LAMBDA e : e.ev = "read_options" /\ Len(e.path) = 1 /\ e.ty = op.ty.elem)

\* The element decoder on its own, where slot j's decode started.
Standalone(j, d) ==
    ReadOptions(op.ty.elem, [data |-> data, pos |-> SlotEvents[j].at, drain |-> d],
                Options(SlotEvents[j].endian), SlotEvents[j].args, <<j - 1>>)

\* The read_options calls of slots 1..n, as each slot makes them on its own.
RECURSIVE SlotLogs(_, _)
SlotLogs(n, d) == IF n = 0 THEN <<>> ELSE SlotLogs(n - 1, d) \o Standalone(n, d).log

\* ------------------------------------------------------------------- C7
\* C7: for an array [B; N] and every k < N, if the element decoder fails at
\* slot k (slots 0..k-1 having succeeded), the array decode returns exactly
\* the error the element decoder raised, returns no array, and invokes the
\* element decoder for no slot after k.
C7_ArrayStopsAtFirstFailure ==
    (pc = "done" /\ op.ty.k = "array" /\ ~result.ok)
    => LET n == Len(SlotEvents)
       IN  /\ n >= 1 /\ n <= op.ty.n
           /\ \A j \in 1..n : SlotEvents[j].path = <<j - 1>>
           /\ \A d \in BOOLEAN :
                 /\ \A j \in 1..(n - 1) : Standalone(j, d).ok
                 /\ ~Standalone(n, d).ok
                 /\ result.err = Standalone(n, d).err
                 /\ Len(ReadEvents) = 1 + Len(SlotLogs(n, d))
           /\ result.val = NoVal

\* An array whose slot 0 decoded and whose slot 1 failed, with a slot left.
C7_Witness ==
    /\ pc = "done"
    /\ op.ty.k = "array"
    /\ op.ty.elem = U16
    /\ ~result.ok
    /\ Len(SlotEvents) = 2
    /\ op.ty.n > 2
    /\ result.err = EofError

\* The element's own error comes through: a Vec<u8> element's.
C7_ElementErrorWitness ==
    /\ pc = "done"
    /\ op.ty = TArray(TVec(U8), MaxN)
    /\ ~result.ok
    /\ Len(SlotEvents) = 2
    /\ result.err = not_enough_bytes

\* ------------------------------------------------------------------- C9
\* C9: Vec<B> of a non-byte element type decoded with count c invokes the
\* element decoder on elements 0, 1, 2, .. in order, each with a duplicate
\* of args.inner; at the first element that fails it returns that element's
\* error unchanged, returns no partial sequence, and invokes the element
\* decoder for no later element.
C9_VecElementLoop ==
    (pc = "done" /\ op.ty.k = "vec" /\ op.ty.elem /= U8)
    => LET n == Len(SlotEvents)
       IN  /\ n <= op.args.count
           /\ \A j \in 1..n :
                 /\ SlotEvents[j].path = <<j - 1>>
                 /\ SlotEvents[j].args = op.args.inner
           /\ \A d \in BOOLEAN : Len(ReadEvents) = 1 + Len(SlotLogs(n, d))
           /\ result.ok =>
                 /\ n = op.args.count
                 /\ Len(result.val.items) = n
                 /\ \A d \in BOOLEAN : \A j \in 1..n :
                       Standalone(j, d).ok /\ result.val.items[j] = Standalone(j, d).val
           /\ ~result.ok =>
                 /\ n >= 1
                 /\ result.val = NoVal
                 /\ \A d \in BOOLEAN :
                       /\ \A j \in 1..(n - 1) : Standalone(j, d).ok
                       /\ ~Standalone(n, d).ok
                       /\ result.err = Standalone(n, d).err

\* A Vec<Vec<u8>> whose element 0 decoded and whose element 1 failed.
C9_Witness ==
    /\ pc = "done"
    /\ op.ty = TVec(TVec(U8))
    /\ op.args = VecArgs(MaxCount, VecArgs(1, UnitArgs))
    /\ ~result.ok
    /\ Len(SlotEvents) = 2
    /\ Len(SlotEvents) < op.args.count + 1
    /\ result.err = not_enough_bytes

\* ------------------------------------------------------------------ C10
\* C10: throughout one top-level decode, every read_options and after_parse
\* call the built-in Vec, array, tuple, Option, Box and char implementations
\* make is given options of the byte order the top-level call was given.
C10_OptionsThreadedUnchanged ==
    Called => \A i \in 1..Len(log) : log[i].endian = op.endian

\* A nested decode and finalize under Big: a tuple in an Option.
C10_Witness ==
    /\ pc = "finalized"
    /\ op.ty = TOption(TTuple(<<U16, U8>>))
    /\ op.endian = "Big"
    /\ result.ok
    /\ Len(ReadEvents) = 4
    /\ Len(AfterEvents) = 4

\* ------------------------------------------------------------------ C11
\* The two phases of the call that returned, each on its own: the decode
\* from where the call started, and the finalize of what it decoded.
PrimaryDecode(d) ==
    ReadOptions(op.ty, [data |-> data, pos |-> op.at, drain |-> d], Options(op.endian),
                op.args, <<>>)

SecondPhase(dec) == AfterParse(op.ty, dec.val, dec.r, Options(op.endian), op.args, <<>>)

\* C11: in read_type_args, after_parse is invoked only after read_options
\* has returned success: if the decode fails, after_parse is never invoked
\* and the decode's error is returned; if after_parse fails, its error is
\* returned and the decoded value is not.
C11_AfterParseOnlyAfterDecode ==
    (pc = "done" /\ op.entry = "read_type_args")
    => \A d \in BOOLEAN :
          LET dec == PrimaryDecode(d)
              n == Len(dec.log)
          IN  /\ Len(log) >= n
              /\ SubSeq(log, 1, n) = dec.log
              /\ \A i \in 1..Len(log) : log[i].ev = "after_parse" => (dec.ok /\ i > n)
              /\ ~dec.ok => /\ ~result.ok
                            /\ result.err = dec.err
                            /\ result.val = NoVal
                            /\ AfterEvents = <<>>
              /\ dec.ok => LET ap == SecondPhase(dec)
                           IN  /\ log = dec.log \o ap.log
                               /\ log[n + 1].ev = "after_parse"
                               /\ log[n + 1].path = <<>>
                               /\ ap.ok => (result.ok /\ result.val = ap.val)
                               /\ ~ap.ok => /\ ~result.ok
                                            /\ result.err = ap.err
                                            /\ result.val = NoVal

\* The second phase fails after a successful decode: the tuple (u8, ptr) is
\* decoded from FF FF, and the offset FF lies past the end of the stream.
C11_Witness ==
    /\ pc = "done"
    /\ op.entry = "read_type_args"
    /\ op.ty = TTuple(<<U8, TPtr(U16)>>)
    /\ op.at = 0
    /\ data = <<255, 255>>
    /\ PrimaryLen = 4
    /\ Len(AfterEvents) = 3
    /\ ~result.ok
    /\ result.val = NoVal
    /\ result.err = EofError

\* The decode fails: no after_parse call is made.
C11_DecodeFailsWitness ==
    /\ pc = "done"
    /\ op.entry = "read_type_args"
    /\ op.ty = TTuple(<<U8, TPtr(U16)>>)
    /\ RemainingAt(op.at) = 1
    /\ ~result.ok
    /\ Len(ReadEvents) = 4
    /\ AfterEvents = <<>>

\* Both phases succeed: the offset 00 refers to the start of the stream.
C11_ResolvedWitness ==
    /\ pc = "done"
    /\ op.entry = "read_type_args"
    /\ op.ty = TPtr(U16)
    /\ result.ok
    /\ result.val.some
    /\ result.val.val.digits = <<0, 255>>

\* ------------------------------------------------------------------- C8
UnsetOf(kind) ==
    {n \in FieldNames(builder.struct) :
        FieldKind(FieldOf(builder.struct, n)) = kind /\ ~builder.set[n].set}

\* The aggregate holds what was supplied, and defaults elsewhere.
AggregateAsSupplied ==
    \A n \in FieldNames(builder.struct) :
       IF builder.set[n].set THEN bresult.val[n] = builder.set[n].v
       ELSE /\ HasDefault(FieldOf(builder.struct, n).ty)
            /\ bresult.val[n] = DefaultOf(FieldOf(builder.struct, n).ty)

\* A VecArgs<()> builder given count = 3 and nothing else.
OnlyCountThree ==
    /\ builder.struct = "VecArgs<()>"
    /\ builder.order = <<"count">>
    /\ builder.set["count"].v = 3

\* C8 (as claimed): finalizing a named-argument builder, whatever the order
\* the fields were supplied in, fails if a Required field was never
\* supplied, and otherwise yields the aggregate in which every supplied
\* field is the value supplied and every unsupplied TryOptional field is
\* that field's default.
C8_FinalizeFailsOnlyOnRequired ==
    bresult.done =>
       /\ UnsetOf("Required") /= {} => ~bresult.ok
       /\ UnsetOf("Required") = {} => (bresult.ok /\ AggregateAsSupplied)

\* C8 (amended): finalizing fails if a Required field was never supplied or
\* if an unsupplied TryOptional field's type has no default (as the inner of
\* VecArgs<VecArgs<()>> has none); otherwise it yields the aggregate in
\* which every supplied field is the value supplied and every unsupplied
\* TryOptional field is that field's default.  A VecArgs<()> builder given
\* only count = 3 finalizes with count = 3 and inner the default.
C8_FinalizeAmended ==
    bresult.done =>
       /\ UnsetOf("Required") /= {} => ~bresult.ok
       /\ (\E n \in UnsetOf("TryOptional") : ~HasDefault(FieldOf(builder.struct, n).ty))
             => ~bresult.ok
       /\ (/\ UnsetOf("Required") = {}
           /\ \A n \in UnsetOf("TryOptional") : HasDefault(FieldOf(builder.struct, n).ty))
             => (bresult.ok /\ AggregateAsSupplied)
       /\ OnlyCountThree => (bresult.ok /\ bresult.val = VecArgs(3, UnitArgs))

\* The VecArgs<()> builder given only count = 3, finalized.
C8_Witness ==
    /\ bresult.done
    /\ OnlyCountThree
    /\ bresult.ok
    /\ bresult.val["inner"] = UnitArgs

\* The builder of tests/builder.rs, its fields supplied out of declaration
\* order, finalized.
C8_TestWitness ==
    /\ bresult.done
    /\ bresult.ok
    /\ builder.struct = "Test<String>"
    /\ builder.order = <<"generic", "not_clone", "not_copy", "blah">>
    /\ bresult.val["blah"] = 3
    /\ bresult.val["not_copy"] = "a string here"

====
